---- MODULE Spec2Model ----
(***************************************************************************)
(* Model of session-1-Project1/contentMetadataExtractor.py: a script that  *)
(* fetches the full-credits page of every configured series, extracts a    *)
(* capped list of actors from each stored response and prints the result.  *)
(*                                                                         *)
(* Text is a sequence of one-character strings, so that str.strip() and    *)
(* str.split('/') are computed and not assumed.  A parsed document is the  *)
(* list of elements each BeautifulSoup query of the script would match.    *)
(***************************************************************************)
EXTENDS Naturals, Sequences, FiniteSets

VARIABLES
    explicitSeriesSet,       \* the configured label -> IMDb id mapping, in insertion order
    simulatedExecutionMode,  \* TRUE: read fixtures, FALSE: requests.get
    actorLimit,              \* cap on the actors extracted per series
    httpResponsesSet,        \* insertion-ordered dict: IMDb id -> response
    seriesList,              \* the accumulated Series instances
    seriesInstance,          \* the Series under construction (a script-level name)
    series_name,             \* loop variable of the fetch loop (survives the loop)
    imdb_id,                 \* loop variable of both loops
    response,                \* the response last fetched, then the one under extraction
    i,                       \* position of the fetch loop in explicitSeriesSet
    j,                       \* position of the extraction loop in httpResponsesSet
    pc,                      \* "fetch", "extract", "report", "done" or "aborted"
    error,                   \* the uncaught exception that aborted the run, "" if none
    out,                     \* the lines printed before the report
    reported                 \* the series printed by the report loop

vars == <<explicitSeriesSet, simulatedExecutionMode, actorLimit, httpResponsesSet,
          seriesList, seriesInstance, series_name, imdb_id, response, i, j, pc,
          error, out, reported>>

(***************************************************************************)
(* Bounds of the model.                                                    *)
(***************************************************************************)
MaxTitles == 3

MaxLimit == 2

Ids == {"tt1", "tt2", "tt3"}

Label(k) == <<"Series", k>>

Min(a, b) == IF a <= b THEN a ELSE b

(***************************************************************************)
(* Text primitives: str.strip() and str.split(sep).                        *)
(***************************************************************************)
IsSpace(c) == c \in {" ", "\n", "\t"}

RECURSIVE LStrip(_)
LStrip(s) ==
    IF s = <<>> THEN <<>>
    ELSE IF IsSpace(Head(s)) THEN LStrip(Tail(s))
    ELSE s

RECURSIVE RStrip(_)
RStrip(s) ==
    IF s = <<>> THEN <<>>
    ELSE IF IsSpace(s[Len(s)]) THEN RStrip(SubSeq(s, 1, Len(s) - 1))
    ELSE s

Strip(s) == RStrip(LStrip(s))

RECURSIVE Split(_, _)
Split(s, sep) ==
    IF \A k \in 1..Len(s) : s[k] /= sep THEN <<s>>
    ELSE LET k == CHOOSE n \in 1..Len(s) :
                      /\ s[n] = sep
                      /\ \A m \in 1..(n - 1) : s[m] /= sep
         IN  <<SubSeq(s, 1, k - 1)>> \o Split(SubSeq(s, k + 1, Len(s)), sep)

(***************************************************************************)
(* The pages the Source Provider can return.  A page is given by what the  *)
(* script's queries match in it: `subtitle` is the list of h2 elements     *)
(* with data-testid "subtitle", `cast` the list of div elements with       *)
(* data-testid "sub-section-cast", each the list of its credit rows (li).  *)
(* A row lists its name links (`names`) and its character links (`chars`), *)
(* a character link carrying its text and its href attribute, if any.      *)
(***************************************************************************)
HrefJH == <<"/", "t", "/", "s", "/", "c", "/", "n", "1", "/">>

HrefSS == <<"/", "t", "/", "s", "/", "c", "/", "n", "2", "?", "r">>

HrefEW == <<"/", "t", "/", "s", "/", "c", "/", "n", "3">>

HrefShort == <<"/", "n", "/", "n", "4", "/">>

LiJH == [names |-> << <<" ", "J", "H", "\n">> >>,
         chars |-> << [text |-> <<"V", "L">>, href |-> <<HrefJH>>] >>]

LiSS == [names |-> << <<"S", "S">> >>,
         chars |-> << [text |-> <<" ", "B", "S">>, href |-> <<HrefSS>>],
                      [text |-> <<"e", "p">>, href |-> <<HrefShort>>] >>]

LiEW == [names |-> << <<"E", "W">> >>,
         chars |-> << [text |-> <<"U", "K", " ">>, href |-> <<HrefEW>>] >>]

LiNoName == [names |-> <<>>,
             chars |-> << [text |-> <<"X">>, href |-> <<HrefJH>>] >>]

LiNoCharacter == [names |-> << <<"N", "C">> >>, chars |-> <<>>]

LiNoHref == [names |-> << <<"N", "H">> >>,
             chars |-> << [text |-> <<"Y">>, href |-> <<>>] >>]

LiShortHref == [names |-> << <<"S", "H">> >>,
                chars |-> << [text |-> <<"Z">>, href |-> <<HrefShort>>] >>]

DocFull == [subtitle |-> << <<" ", "C", "h", " ">> >>,
            cast |-> << <<LiJH, LiSS, LiEW>>, <<LiEW>> >>]

DocOther == [subtitle |-> << <<"N", "M">>, <<"x">> >>,
             cast |-> << <<LiEW>> >>]

DocNoSubtitle == [subtitle |-> <<>>, cast |-> << <<LiJH>> >>]

DocNoCast == [subtitle |-> << <<"D", "B">> >>, cast |-> <<>>]

DocBadRow == [subtitle |-> << <<"T", "D">> >>,
              cast |-> << <<LiSS, LiNoName, LiJH>> >>]

DocShortHref == [subtitle |-> << <<"J", "k">> >>,
                 cast |-> << <<LiJH, LiShortHref>> >>]

DocNoCharacter == [subtitle |-> << <<"N", "c">> >>,
                   cast |-> << <<LiNoCharacter>> >>]

DocNoHref == [subtitle |-> << <<"N", "h">> >>,
              cast |-> << <<LiNoHref>> >>]

Docs == {DocFull, DocOther, DocNoSubtitle, DocNoCast, DocBadRow, DocShortHref,
         DocNoCharacter, DocNoHref}

ErrorPage == [subtitle |-> <<>>, cast |-> <<>>]

Response(status_code, content) == [status_code |-> status_code, content |-> content]

NoResponse == Response(0, ErrorPage)

LiveResponses ==
    {Response(200, d) : d \in Docs} \cup {Response(404, ErrorPage)}

(***************************************************************************)
(* The insertion-ordered dict httpResponsesSet: a sequence of key/value    *)
(* entries; storing under a key already present replaces its value and     *)
(* keeps its position.                                                     *)
(***************************************************************************)
DictKeys(d) == [k \in 1..Len(d) |-> d[k].key]

DictHas(d, key) == \E k \in 1..Len(d) : d[k].key = key

DictGet(d, key) == d[CHOOSE k \in 1..Len(d) : d[k].key = key].value

DictPut_AlwaysAppend(d, key, value) ==
    Append(d, [key |-> key, value |-> value])

DictPut(d, key, value) ==
    IF DictHas(d, key)
    THEN [k \in 1..Len(d) |-> IF d[k].key = key
                              THEN [key |-> key, value |-> value]
                              ELSE d[k]]
    ELSE Append(d, [key |-> key, value |-> value])

(***************************************************************************)
(* class Actor, class Series.                                              *)
(***************************************************************************)
Actor(actor, character, imdbActorId) ==
    [actor |-> actor, character |-> character, imdbActorId |-> imdbActorId]

Series(seriesName, imdbSeriesId) ==
    [series_name |-> seriesName, actors |-> <<>>, imdbSeriesId |-> imdbSeriesId]

add_actor_Prepend(series, actor_instance) ==
    [series EXCEPT !.actors = <<actor_instance>> \o @]

\* Every caller passes an Actor(...), so the TypeError branch is never taken.
add_actor(series, actor_instance) ==
    [series EXCEPT !.actors = Append(@, actor_instance)]

NoActor == Actor(<<>>, <<>>, <<>>)

NoSeries == Series(<<>>, "")

(***************************************************************************)
(* The extraction of one response (the body of the second loop).           *)
(* A result is [error, ...]: error is "" on success, otherwise the         *)
(* exception raised, which nothing in the script catches.                  *)
(***************************************************************************)
ActorIdIndex == 4

cast_list_subset_NoCap(cast_list, limit) == cast_list

cast_list_subset(cast_list, limit) ==
    SubSeq(cast_list, 1, Min(Len(cast_list), limit))

actorId(href) == Split(href, "/")[ActorIdIndex + 1]

ExtractActor(li) ==
    IF li.names = <<>>
    THEN [error |-> "AttributeError", actor |-> NoActor]
    ELSE IF li.chars = <<>>
    THEN [error |-> "AttributeError", actor |-> NoActor]
    ELSE IF li.chars[1].href = <<>>
    THEN [error |-> "KeyError", actor |-> NoActor]
    ELSE IF Len(Split(li.chars[1].href[1], "/")) < ActorIdIndex + 1
    THEN [error |-> "IndexError", actor |-> NoActor]
    ELSE [error |-> "",
          actor |-> Actor(Strip(li.names[1]), Strip(li.chars[1].text),
                          actorId(li.chars[1].href[1]))]

RECURSIVE ExtractRows(_, _)
ExtractRows(rows, series) ==
    IF rows = <<>> THEN [error |-> "", series |-> series]
    ELSE LET r == ExtractActor(Head(rows))
         IN  IF r.error /= "" THEN [error |-> r.error, series |-> series]
             ELSE ExtractRows(Tail(rows), add_actor(series, r.actor))

ExtractSeries(content, id, limit, previous) ==
    IF content.subtitle = <<>>
    THEN [error |-> "AttributeError", series |-> previous]
    ELSE LET instance == Series(Strip(content.subtitle[1]), id)
         IN  IF content.cast = <<>>
             THEN [error |-> "IndexError", series |-> instance]
             ELSE ExtractRows(cast_list_subset(content.cast[1], limit), instance)

Accumulate_BeforeRows(list, result) == Append(list, result.series)

\* seriesList.append comes after the row loop: it is reached only if nothing raised.
Accumulate(list, result) ==
    IF result.error = "" THEN Append(list, result.series) ELSE list

(***************************************************************************)
(* Printed lines.  `examined` is not printed: it records the IMDb id the   *)
(* script was working on when it printed the line.                         *)
(***************************************************************************)
httpRequestPattern(id) == <<"https://www.imdb.com/title/", id, "/fullcredits/">>

Line(kind, name, url, status, examined) ==
    [kind |-> kind, name |-> name, url |-> url, status |-> status,
     examined |-> examined]

RequestingLine(name, id) ==
    Line("Requesting", name, httpRequestPattern(id), 0, id)

FailedLine(name, status, id) ==
    Line("Failed to retrieve data", name, <<>>, status, id)

ReportOf(series) ==
    [header |-> <<series.series_name, series.imdbSeriesId>>,
     actors |-> [k \in 1..Len(series.actors) |->
                    <<series.actors[k].imdbActorId, series.actors[k].actor,
                      series.actors[k].character>>]]

(***************************************************************************)
(* The run.                                                                *)
(***************************************************************************)
Configs ==
    UNION {{[k \in 1..n |-> [name |-> Label(k), id |-> f[k]]] : f \in [1..n -> Ids]}
           : n \in 1..MaxTitles}

Init ==
    /\ explicitSeriesSet \in Configs
    /\ simulatedExecutionMode \in BOOLEAN
    /\ actorLimit \in 0..MaxLimit
    /\ httpResponsesSet = <<>>
    /\ seriesList = <<>>
    /\ seriesInstance = NoSeries
    /\ series_name = Label(0)
    /\ imdb_id = ""
    /\ response = NoResponse
    /\ i = 1
    /\ j = 1
    /\ pc = "fetch"
    /\ error = ""
    /\ out = <<>>
    /\ reported = <<>>

AfterFetch_Interleaved(k, n) == "extract"

AfterFetch(k, n) == IF k = n THEN "extract" ELSE "fetch"

AfterExtract(k, n) == IF k = n THEN "report" ELSE "extract"

\* One pass of the first loop in live mode: requests.get(url).
FetchLive ==
    /\ pc = "fetch"
    /\ ~simulatedExecutionMode
    /\ \E got \in LiveResponses :
          /\ response' = got
          /\ httpResponsesSet' =
                DictPut(httpResponsesSet, explicitSeriesSet[i].id, got)
    /\ series_name' = explicitSeriesSet[i].name
    /\ imdb_id' = explicitSeriesSet[i].id
    /\ out' = Append(out, RequestingLine(explicitSeriesSet[i].name,
                                         explicitSeriesSet[i].id))
    /\ i' = i + 1
    /\ pc' = AfterFetch(i, Len(explicitSeriesSet))
    /\ UNCHANGED <<explicitSeriesSet, simulatedExecutionMode, actorLimit,
                   seriesList, seriesInstance, j, error, reported>>

\* One pass of the first loop in simulated mode, the fixture <imdb_id>.html
\* being there.  A fixture read before still has the same content.
FetchSimulated ==
    /\ pc = "fetch"
    /\ simulatedExecutionMode
    /\ \E content \in Docs :
          /\ DictHas(httpResponsesSet, explicitSeriesSet[i].id) =>
                content = DictGet(httpResponsesSet, explicitSeriesSet[i].id).content
          /\ response' = Response(200, content)
          /\ httpResponsesSet' =
                DictPut(httpResponsesSet, explicitSeriesSet[i].id,
                        Response(200, content))
    /\ series_name' = explicitSeriesSet[i].name
    /\ imdb_id' = explicitSeriesSet[i].id
    /\ out' = Append(out, RequestingLine(explicitSeriesSet[i].name,
                                         explicitSeriesSet[i].id))
    /\ i' = i + 1
    /\ pc' = AfterFetch(i, Len(explicitSeriesSet))
    /\ UNCHANGED <<explicitSeriesSet, simulatedExecutionMode, actorLimit,
                   seriesList, seriesInstance, j, error, reported>>

\* The same pass, the fixture missing: open() raises and nothing catches it.
FetchMissingFixture ==
    /\ pc = "fetch"
    /\ simulatedExecutionMode
    /\ ~DictHas(httpResponsesSet, explicitSeriesSet[i].id)
    /\ series_name' = explicitSeriesSet[i].name
    /\ imdb_id' = explicitSeriesSet[i].id
    /\ out' = Append(out, RequestingLine(explicitSeriesSet[i].name,
                                         explicitSeriesSet[i].id))
    /\ error' = "FileNotFoundError"
    /\ pc' = "aborted"
    /\ UNCHANGED <<explicitSeriesSet, simulatedExecutionMode, actorLimit,
                   httpResponsesSet, seriesList, seriesInstance, response, i, j,
                   reported>>

\* One pass of the second loop over a response with status 200.
ExtractResponse ==
    /\ pc = "extract"
    /\ httpResponsesSet[j].value.status_code = 200
    /\ LET result == ExtractSeries(httpResponsesSet[j].value.content,
                                   httpResponsesSet[j].key, actorLimit,
                                   seriesInstance)
       IN  /\ seriesInstance' = result.series
           /\ seriesList' = Accumulate(seriesList, result)
           /\ error' = result.error
           /\ IF result.error = ""
              THEN /\ j' = j + 1
                   /\ pc' = AfterExtract(j, Len(httpResponsesSet))
              ELSE /\ j' = j
                   /\ pc' = "aborted"
    /\ imdb_id' = httpResponsesSet[j].key
    /\ response' = httpResponsesSet[j].value
    /\ UNCHANGED <<explicitSeriesSet, simulatedExecutionMode, actorLimit,
                   httpResponsesSet, series_name, i, out, reported>>

\* One pass of the second loop over a response with another status.
ReportFailedResponse ==
    /\ pc = "extract"
    /\ httpResponsesSet[j].value.status_code /= 200
    /\ imdb_id' = httpResponsesSet[j].key
    /\ response' = httpResponsesSet[j].value
    /\ out' = Append(out, FailedLine(series_name,
                                     httpResponsesSet[j].value.status_code,
                                     httpResponsesSet[j].key))
    /\ j' = j + 1
    /\ pc' = AfterExtract(j, Len(httpResponsesSet))
    /\ UNCHANGED <<explicitSeriesSet, simulatedExecutionMode, actorLimit,
                   httpResponsesSet, seriesList, seriesInstance, series_name, i,
                   error, reported>>

\* "All responses processed.", the report loop, "Execution completed."
Report ==
    /\ pc = "report"
    /\ reported' = [k \in 1..Len(seriesList) |-> ReportOf(seriesList[k])]
    /\ pc' = "done"
    /\ UNCHANGED <<explicitSeriesSet, simulatedExecutionMode, actorLimit,
                   httpResponsesSet, seriesList, seriesInstance, series_name,
                   imdb_id, response, i, j, error, out>>

Next ==
    \/ FetchLive
    \/ FetchSimulated
    \/ FetchMissingFixture
    \/ ExtractResponse
    \/ ReportFailedResponse
    \/ Report

Spec == Init /\ [][Next]_vars

(***************************************************************************)
(* Vocabulary of the properties.                                           *)
(***************************************************************************)
ParseErrors == {"AttributeError", "IndexError", "KeyError"}

ConfiguredIds == {explicitSeriesSet[p].id : p \in 1..Len(explicitSeriesSet)}

FirstOccurrence(id) ==
    CHOOSE p \in 1..Len(explicitSeriesSet) :
        /\ explicitSeriesSet[p].id = id
        /\ \A q \in 1..(p - 1) : explicitSeriesSet[q].id /= id

\* The page stored for an IMDb id, and the credit rows of its first cast section.
ContentOf(id) == DictGet(httpResponsesSet, id).content

RowsOf(id) == ContentOf(id).cast[1]

\* A credit row with everything the script reads from it.
WellFormed(li) ==
    /\ li.names /= <<>>
    /\ li.chars /= <<>>
    /\ li.chars[1].href /= <<>>
    /\ Cardinality({k \in 1..Len(li.chars[1].href[1]) :
                       li.chars[1].href[1][k] = "/"}) >= ActorIdIndex

\* The keys of the first n entries of d whose response has status 200, in order.
RECURSIVE OkKeys(_, _)
OkKeys(d, n) ==
    IF n = 0 THEN <<>>
    ELSE IF d[n].value.status_code = 200
    THEN Append(OkKeys(d, n - 1), d[n].key)
    ELSE OkKeys(d, n - 1)

SeriesIds == [k \in 1..Len(seriesList) |-> seriesList[k].imdbSeriesId]

FailedLines == {k \in 1..Len(out) : out[k].kind = "Failed to retrieve data"}

(***************************************************************************)
(* C1: in every reachable state, the Series under construction, every      *)
(* accumulated Series and every reported one has at most actorLimit        *)
(* actors.                                                                 *)
(***************************************************************************)
C1_MembersWithinLimit ==
    /\ Len(seriesInstance.actors) <= actorLimit
    /\ \A k \in 1..Len(seriesList) : Len(seriesList[k].actors) <= actorLimit
    /\ \A k \in 1..Len(reported) : Len(reported[k].actors) <= actorLimit

\* A page with more rows than the limit was extracted and cut to the limit.
C1_Witness ==
    /\ actorLimit > 0
    /\ \E k \in 1..Len(seriesList) :
          /\ Len(RowsOf(seriesList[k].imdbSeriesId)) > actorLimit
          /\ Len(seriesList[k].actors) = actorLimit

(***************************************************************************)
(* C2: once a non-200 response has been reported as failed, no Series of   *)
(* that id is accumulated, and when the run ends every accumulated Series  *)
(* (every other title fetched and extracted with success) is in the        *)
(* report.                                                                 *)
(***************************************************************************)
C2_FailedFetchOthersReported ==
    (FailedLines /= {} /\ pc \in {"done", "aborted"}) =>
        /\ \A f \in FailedLines : \A k \in 1..Len(seriesList) :
              seriesList[k].imdbSeriesId /= out[f].examined
        /\ \A k \in 1..Len(seriesList) :
              \E r \in 1..Len(reported) : reported[r] = ReportOf(seriesList[k])

(***************************************************************************)
(* C3: a missing fixture does not end the run: the run never stops on the  *)
(* FileNotFoundError of open().                                            *)
(***************************************************************************)
C3_MissingFixtureDoesNotAbort ==
    error = "FileNotFoundError" => pc /= "aborted"

(***************************************************************************)
(* C4: a parse failure on one title does not end the run: the run never    *)
(* stops on an exception raised while extracting a page.                   *)
(***************************************************************************)
C4_ParseFailureDoesNotAbort ==
    error \in ParseErrors => pc /= "aborted"

(***************************************************************************)
(* C5: every failure line names a label that the configuration maps to     *)
(* the IMDb id whose response was being examined.                          *)
(***************************************************************************)
C5_FailureLineNamesFailingTitle ==
    \A f \in FailedLines :
        \E p \in 1..Len(explicitSeriesSet) :
            /\ explicitSeriesSet[p].name = out[f].name
            /\ explicitSeriesSet[p].id = out[f].examined

(***************************************************************************)
(* C6: the imdbActorId of every accumulated actor is the element at        *)
(* zero-based index 3 of its row's character-link href split on "/".       *)
(***************************************************************************)
C6_ActorIdIsIndexThree ==
    \A k \in 1..Len(seriesList) : \A m \in 1..Len(seriesList[k].actors) :
        seriesList[k].actors[m].imdbActorId =
            Split(RowsOf(seriesList[k].imdbSeriesId)[m].chars[1].href[1], "/")[3 + 1]

(***************************************************************************)
(* C7: every accumulated Series holds exactly the first min(n, actorLimit) *)
(* of the n rows of its page's first cast section, one actor per row, in   *)
(* the order of the page.                                                  *)
(***************************************************************************)
C7_FirstRowsInDocumentOrder ==
    \A k \in 1..Len(seriesList) :
        LET rows == RowsOf(seriesList[k].imdbSeriesId)
            members == seriesList[k].actors
        IN  /\ Len(members) = Min(Len(rows), actorLimit)
            /\ \A m \in 1..Len(members) :
                  /\ members[m].actor = Strip(rows[m].names[1])
                  /\ members[m].character = Strip(rows[m].chars[1].text)

\* In one run: a page of three rows cut to its first two, in order, and a page
\* with fewer rows than the limit extracted without padding.
C7_Witness ==
    /\ actorLimit = 2
    /\ \E a, b \in 1..Len(seriesList) :
          /\ Len(RowsOf(seriesList[a].imdbSeriesId)) = 3
          /\ [m \in 1..2 |-> seriesList[a].actors[m].actor] =
                << <<"J", "H">>, <<"S", "S">> >>
          /\ Len(RowsOf(seriesList[b].imdbSeriesId)) = 1
          /\ Len(seriesList[b].actors) = 1

(***************************************************************************)
(* C8: every accumulated Series is complete: its page has the subtitle and *)
(* a cast section, every retained row is well formed and all of them were  *)
(* converted; and a title whose extraction raised has no Series in         *)
(* seriesList.                                                             *)
(***************************************************************************)
C8_OnlyCompleteSeriesAccumulated ==
    /\ \A k \in 1..Len(seriesList) :
          LET content == ContentOf(seriesList[k].imdbSeriesId)
          IN  /\ DictHas(httpResponsesSet, seriesList[k].imdbSeriesId)
              /\ content.subtitle /= <<>>
              /\ content.cast /= <<>>
              /\ seriesList[k].series_name = Strip(content.subtitle[1])
              /\ Len(seriesList[k].actors) = Min(Len(content.cast[1]), actorLimit)
              /\ \A m \in 1..Min(Len(content.cast[1]), actorLimit) :
                    WellFormed(content.cast[1][m])
    /\ (pc = "aborted" /\ error \in ParseErrors) =>
          \A k \in 1..Len(seriesList) : seriesList[k].imdbSeriesId /= imdb_id

\* A bad row after a good one: the Series under construction holds an actor and
\* is not accumulated, while an earlier Series is.
C8_Witness ==
    /\ pc = "aborted"
    /\ error \in ParseErrors
    /\ seriesInstance.imdbSeriesId = imdb_id
    /\ Len(seriesInstance.actors) >= 1
    /\ seriesList /= <<>>

(***************************************************************************)
(* C9 as stated: a pair is fetched only after the response of every pair   *)
(* before it has been examined by the extraction loop.                     *)
(***************************************************************************)
C9_FetchAfterPreviousExtracted ==
    pc = "fetch" =>
        \A p \in 1..(i - 1) :
            \E k \in 1..(j - 1) : httpResponsesSet[k].key = explicitSeriesSet[p].id

(***************************************************************************)
(* C9 amended: the pairs are fetched one at a time in configured order and *)
(* all of them before any response is examined; the stored responses are   *)
(* then examined one at a time in the order of each id's first occurrence, *)
(* the Series of each 200 response being accumulated before the next one   *)
(* is examined; the report is made only after all of them were examined.   *)
(***************************************************************************)
C9_FetchAllThenExtractThenReport ==
    /\ i \in 1..(Len(explicitSeriesSet) + 1)
    /\ j \in 1..(Len(httpResponsesSet) + 1)
    /\ \A p \in 1..(i - 1) :
          out[p] = RequestingLine(explicitSeriesSet[p].name, explicitSeriesSet[p].id)
    /\ pc = "fetch" => j = 1 /\ seriesList = <<>> /\ Len(out) = i - 1
    /\ pc \in {"extract", "report", "done"} =>
          /\ i = Len(explicitSeriesSet) + 1
          /\ Len(httpResponsesSet) = Cardinality(ConfiguredIds)
          /\ \A a, b \in 1..Len(httpResponsesSet) :
                a < b => FirstOccurrence(httpResponsesSet[a].key)
                            < FirstOccurrence(httpResponsesSet[b].key)
          /\ SeriesIds = OkKeys(httpResponsesSet, j - 1)
    /\ pc = "extract" => j <= Len(httpResponsesSet)
    /\ pc \in {"report", "done"} => j = Len(httpResponsesSet) + 1
    /\ reported /= <<>> => pc = "done"

\* Three pairs were fetched, one Series is accumulated, responses are left.
C9_Witness ==
    /\ pc = "extract"
    /\ Len(explicitSeriesSet) = 3
    /\ Len(httpResponsesSet) = 3
    /\ j = 2
    /\ Len(seriesList) = 1

(***************************************************************************)
(* C10: the accumulated (and the reported) Series have pairwise distinct   *)
(* IMDb ids, all configured, in the order of their first occurrence in the *)
(* configuration, so there are no more of them than distinct configured    *)
(* ids; the response stored for an id is the one fetched last for it.      *)
(***************************************************************************)
C10_DistinctConfiguredIdsInOrder ==
    /\ \A a, b \in 1..Len(seriesList) :
          a < b => /\ SeriesIds[a] /= SeriesIds[b]
                   /\ FirstOccurrence(SeriesIds[a]) < FirstOccurrence(SeriesIds[b])
    /\ \A k \in 1..Len(seriesList) : SeriesIds[k] \in ConfiguredIds
    /\ Len(seriesList) <= Cardinality(ConfiguredIds)
    /\ \A k \in 1..Len(reported) : reported[k] = ReportOf(seriesList[k])
    /\ Len(reported) <= Len(seriesList)
    /\ (i > 1 /\ pc \in {"fetch", "extract"} /\ j = 1) =>
          DictGet(httpResponsesSet, explicitSeriesSet[i - 1].id) = response

\* Two labels share an IMDb id; the run reports one Series for it.
C10_Witness ==
    /\ pc = "done"
    /\ Cardinality(ConfiguredIds) < Len(explicitSeriesSet)
    /\ \E k \in 1..Len(reported) : \E p, q \in 1..Len(explicitSeriesSet) :
          /\ p < q
          /\ explicitSeriesSet[p].id = explicitSeriesSet[q].id
          /\ reported[k].header[2] = explicitSeriesSet[p].id

====
